---- MODULE Spec2Model ----
(***************************************************************************)
(* A model of the asynchronous primitives of dxos/async:                   *)
(*   - Lock (src/src/lock.ts): a chain of promises serialising functions;  *)
(*   - Event (src/src/event.ts): persistent and one-shot listeners whose   *)
(*     invocations are deferred with setImmediate.                         *)
(*     waitFor, waitForCount and the asynchronous iterator are listeners   *)
(*     of the event;                                                       *)
(*   - runWithTimeout and trigger (src/src/run-with-timeout.ts) with their *)
(*     older variants promiseTimeout and trigger (src/src/async.js).       *)
(* The host is modelled by what the code relies on: promises with their    *)
(* reaction lists, the FIFO microtask queue, the FIFO setImmediate queue   *)
(* and timers that fire only when the microtask queue is empty.            *)
(***************************************************************************)
EXTENDS Integers, Sequences, FiniteSets, TLC

(***************************************************************************)
(* Bounds.                                                                 *)
(***************************************************************************)
MaxCalls == 3

NumCallbacks == 2

MaxEmits == 2

MaxHandles == 1

NumWaiters == 2

NumConsumers == 2

NumRaces == 2

NumTriggers == 2

MaxResolves == 2

Calls == 1..MaxCalls

Callbacks == 1..NumCallbacks

(***************************************************************************)
(* Lock: the functions passed to executeSynchronized.  The kinds are the   *)
(* bodies the tests of the lock use: `async () => 'foo'`, `async () =>     *)
(* { throw new Error() }`, a body that awaits sleep() before it finishes   *)
(* (with either ending), and a body that awaits executeSynchronized on the *)
(* same lock.                                                              *)
(***************************************************************************)
FunKinds == {"value", "throw", "sleepValue", "sleepThrow", "reenter"}

Fails(kind) == kind \in {"throw", "sleepThrow"}

Sleeps(kind) == kind \in {"sleepValue", "sleepThrow"}

\* The promises of call c: F is the promise of the async function `fun`,
\* P is `promise` (line 60), T is the recovered tail (line 61).
F(c) == <<"F", c>>

P(c) == <<"P", c>>

T(c) == <<"T", c>>

\* The promise of the sleep() a sleeping body awaits.
SleepP(c) == <<"S", c>>

\* `Promise.resolve()`, the initial value of _lastPromise (line 48).
Resolved == <<"R", 0>>

PromiseIds == {Resolved} \cup ({"F", "P", "T", "S"} \X Calls)

NoPromise == <<"none", 0>>

\* What a settled promise carries: the call whose function produced it
\* (its value 'foo' or its Error), 0 for undefined.
Undefined == 0

VARIABLES
    lastPromise,    \* Lock._lastPromise
    ncalls,         \* number of executeSynchronized calls made so far
    fun,            \* fun[c]: the kind of the function passed to call c
    parent,         \* parent[c]: the call whose function made call c, 0 for the environment
    started,        \* started[c]: the body of fun c has begun
    sleeping,       \* the calls whose sleep() timer is pending
    pstate,         \* promise -> "pending" | "fulfilled" | "rejected"
    pvalue,         \* promise -> value or reason
    reactions,      \* promise -> the reactions registered on it while pending
    microtasks,     \* the host's microtask (promise job) queue
    returned,       \* returned[c]: the promise call c returned to its caller
    startOrder,     \* the calls in the order their bodies began
    firstRunAt      \* ncalls when the first job ran after construction, -1 before

lockVars == <<lastPromise, ncalls, fun, parent, started, sleeping, pstate, pvalue,
              reactions, microtasks, returned, startOrder, firstRunAt>>

VARIABLES
    listeners,      \* Event._listeners, a Set: its elements in insertion order
    onceListeners,  \* Event._onceListeners, likewise
    immediates,     \* the host's setImmediate queue: the closures of _trigger
    handles,        \* the unsubscribe functions on() and once() have returned
    emitted,        \* the emit calls made so far, each with the listeners it found
    invoked,        \* the listener invocations made so far, in order
    logged,         \* the number of lines written by console.log (line 61)
    crashed,        \* an exception left a setImmediate callback uncaught
    promoted,       \* the callbacks on() found one-shot, with the emits made before
    inertCall       \* the last call of a function returned by a once() that did nothing

eventVars == <<listeners, onceListeners, immediates, handles, emitted, invoked, logged,
               crashed, promoted, inertCall>>

VARIABLES
    selfOff,        \* the listeners that unsubscribed themselves, with the emits and
                    \* their own invocations made until then
    nestedEmits     \* the emit calls made by a listener during its invocation

listenerVars == <<selfOff, nestedEmits>>

VARIABLES
    waiters         \* waiters[w]: the w-th call of waitFor or waitForCount: its
                    \* predicate, its counter and its promise

waitVars == <<waiters>>

VARIABLES
    consumers       \* consumers[c]: a `for await` loop over the event: where it
                    \* stands and the values its body has received

iterVars == <<consumers>>

VARIABLES
    races,          \* races[r]: the r-th call of runWithTimeout or promiseTimeout:
                    \* its action, its timer and its promises
    raceJobs        \* the promise jobs queued by the promises of the races

raceVars == <<races, raceJobs>>

VARIABLES
    triggers,       \* triggers[t]: the t-th call of trigger: its timer, its promise
                    \* and the arguments its resolver was called with
    triggerJobs     \* the promise jobs queued by the promises of the triggers

triggerVars == <<triggers, triggerJobs>>

vars == <<lockVars, eventVars, listenerVars, waitVars, iterVars, raceVars, triggerVars>>

\* What the actions of each part leave alone.
exceptLock == <<eventVars, listenerVars, waitVars, iterVars, raceVars, triggerVars>>

exceptEvent == <<lockVars, listenerVars, waitVars, iterVars, raceVars, triggerVars>>

exceptListeners == <<lockVars, waitVars, iterVars, raceVars, triggerVars>>

exceptWait == <<lockVars, listenerVars, iterVars, raceVars, triggerVars>>

exceptIter == <<lockVars, listenerVars, waitVars, raceVars, triggerVars>>

exceptRace == <<lockVars, eventVars, listenerVars, waitVars, iterVars, triggerVars>>

exceptTrigger == <<lockVars, eventVars, listenerVars, waitVars, iterVars, raceVars>>

Job(type, c, src) == [type |-> type, call |-> c, src |-> src]

InitLock ==
    /\ lastPromise = Resolved
    /\ ncalls = 0
    /\ fun = [c \in Calls |-> "none"]
    /\ parent = [c \in Calls |-> 0]
    /\ started = [c \in Calls |-> FALSE]
    /\ sleeping = {}
    /\ pstate = [p \in PromiseIds |-> IF p = Resolved THEN "fulfilled" ELSE "pending"]
    /\ pvalue = [p \in PromiseIds |-> Undefined]
    /\ reactions = [p \in PromiseIds |-> <<>>]
    /\ microtasks = <<>>
    /\ returned = [c \in Calls |-> NoPromise]
    /\ startOrder = <<>>
    /\ firstRunAt = -1

(***************************************************************************)
(* Host promises.                                                          *)
(***************************************************************************)
\* base.then(...) with reaction job j, on reaction lists R and queue Q under
\* promise states S: a pending base keeps the reaction, a settled one
\* queues the job at once.
ThenR(S, R, base, j) ==
    IF S[base] = "pending" THEN [R EXCEPT ![base] = Append(@, j)] ELSE R

ThenQ(S, Q, base, j) ==
    IF S[base] = "pending" THEN Q ELSE Append(Q, j)

\* Settling promise p queues its reactions in registration order.
SettleQ(R, Q, p) == Q \o R[p]

SettleR(R, p) == [R EXCEPT ![p] = <<>>]

(***************************************************************************)
(* Lock.executeSynchronized, lines 59-63.                                  *)
(***************************************************************************)
\* A lock that chains every function on a fresh resolved promise.
ChainBaseFresh(last) == Resolved

\* line 60: the promise the new function is chained on.
ChainBase(last) == last

\* A lock that never replaces _lastPromise.
NewTailNotUpdated(c) == Resolved

\* A lock whose tail is `promise` itself, failures included.
NewTailUnrecovered(c) == P(c)

\* line 61: the new value of _lastPromise.
NewTail(c) == T(c)

\* A lock that hands the recovered tail to the caller.
ReturnedTail(c) == T(c)

\* line 62: the promise handed to the caller.
ReturnedPromise(c) == P(c)

\* Reaction lists after call c: `fun` waits for the chain base, the
\* recovering handlers (line 61) wait for `promise`.
CallR(S, R, c, last) ==
    [ThenR(S, R, ChainBase(last), Job("then", c, ChainBase(last)))
        EXCEPT ![P(c)] = Append(@, Job("noop", c, P(c)))]

CallQ(S, Q, c, last) == ThenQ(S, Q, ChainBase(last), Job("then", c, ChainBase(last)))

\* The number of slots the functions already enqueued will still use for
\* their nested calls.
Reserved == Cardinality({c \in Calls : fun[c] = "reenter" /\ ~started[c]})

\* A call made by code outside the lock's functions.
ExecuteSynchronized(kind) ==
    /\ ncalls + Reserved + (IF kind = "reenter" THEN 2 ELSE 1) <= MaxCalls
    /\ LET c == ncalls + 1 IN
        /\ ncalls' = c
        /\ fun' = [fun EXCEPT ![c] = kind]
        /\ reactions' = CallR(pstate, reactions, c, lastPromise)
        /\ microtasks' = CallQ(pstate, microtasks, c, lastPromise)
        /\ lastPromise' = NewTail(c)
        /\ returned' = [returned EXCEPT ![c] = ReturnedPromise(c)]
    /\ UNCHANGED <<parent, started, sleeping, pstate, pvalue, startOrder, firstRunAt>>

Ran == firstRunAt' = IF firstRunAt = -1 THEN ncalls ELSE firstRunAt

HeadIs(type) == microtasks # <<>> /\ Head(microtasks).type = type

\* The handler `() => fun()` of line 60 (or, for a rejected base, the
\* default rejection handler of then()).
RunThen ==
    /\ HeadIs("then")
    /\ Ran
    /\ LET j == Head(microtasks)
           c == j.call
           rest == Tail(microtasks)
       IN
        IF pstate[j.src] = "rejected"
        THEN \* fun is skipped, `promise` rejects with the reason of the base
            /\ pstate' = [pstate EXCEPT ![P(c)] = "rejected"]
            /\ pvalue' = [pvalue EXCEPT ![P(c)] = pvalue[j.src]]
            /\ microtasks' = SettleQ(reactions, rest, P(c))
            /\ reactions' = SettleR(reactions, P(c))
            /\ UNCHANGED <<lastPromise, ncalls, fun, parent, started, sleeping, startOrder,
                           returned>>
        ELSE
            /\ started' = [started EXCEPT ![c] = TRUE]
            /\ startOrder' = Append(startOrder, c)
            /\ IF fun[c] = "reenter"
               THEN \* the body calls executeSynchronized(noop) and awaits it
                    LET i == ncalls + 1
                        R1 == CallR(pstate, reactions, i, lastPromise)
                        Q1 == CallQ(pstate, rest, i, lastPromise)
                    IN
                    /\ ncalls' = i
                    /\ fun' = [fun EXCEPT ![i] = "value"]
                    /\ parent' = [parent EXCEPT ![i] = c]
                    /\ lastPromise' = NewTail(i)
                    /\ returned' = [returned EXCEPT ![i] = ReturnedPromise(i)]
                    /\ reactions' = ThenR(pstate, R1, ReturnedPromise(i),
                                          Job("resume", c, ReturnedPromise(i)))
                    /\ microtasks' = Append(ThenQ(pstate, Q1, ReturnedPromise(i),
                                                  Job("resume", c, ReturnedPromise(i))),
                                            Job("adopt", c, F(c)))
                    /\ UNCHANGED <<sleeping, pstate, pvalue>>
               ELSE
                    /\ IF Sleeps(fun[c])
                       THEN \* the body stops at `await sleep()`
                            /\ sleeping' = sleeping \cup {c}
                            /\ reactions' = ThenR(pstate, reactions, SleepP(c),
                                                  Job("resume", c, SleepP(c)))
                            /\ UNCHANGED <<pstate, pvalue>>
                       ELSE \* the body runs to its end
                            /\ pstate' = [pstate EXCEPT ![F(c)] =
                                            IF Fails(fun[c]) THEN "rejected" ELSE "fulfilled"]
                            /\ pvalue' = [pvalue EXCEPT ![F(c)] = c]
                            /\ UNCHANGED <<sleeping, reactions>>
                    /\ microtasks' = Append(rest, Job("adopt", c, F(c)))
                    /\ UNCHANGED <<lastPromise, ncalls, fun, parent, returned>>

\* `promise` was resolved with the promise of fun: the host calls its then().
RunAdopt ==
    /\ HeadIs("adopt")
    /\ Ran
    /\ LET j == Head(microtasks)
           fwd == Job("forward", j.call, j.src)
       IN
        /\ reactions' = ThenR(pstate, reactions, j.src, fwd)
        /\ microtasks' = ThenQ(pstate, Tail(microtasks), j.src, fwd)
    /\ UNCHANGED <<lastPromise, ncalls, fun, parent, started, sleeping, pstate, pvalue,
                   returned, startOrder>>

\* `promise` takes the outcome of the promise of fun.
RunForward ==
    /\ HeadIs("forward")
    /\ Ran
    /\ LET j == Head(microtasks)
           p == P(j.call)
       IN
        /\ pstate' = [pstate EXCEPT ![p] = pstate[j.src]]
        /\ pvalue' = [pvalue EXCEPT ![p] = pvalue[j.src]]
        /\ microtasks' = SettleQ(reactions, Tail(microtasks), p)
        /\ reactions' = SettleR(reactions, p)
    /\ UNCHANGED <<lastPromise, ncalls, fun, parent, started, sleeping, returned, startOrder>>

\* One of the two noop handlers of line 61 ran: the tail is fulfilled.
RunNoop ==
    /\ HeadIs("noop")
    /\ Ran
    /\ LET j == Head(microtasks)
           t == T(j.call)
       IN
        /\ pstate' = [pstate EXCEPT ![t] = "fulfilled"]
        /\ pvalue' = [pvalue EXCEPT ![t] = Undefined]
        /\ microtasks' = SettleQ(reactions, Tail(microtasks), t)
        /\ reactions' = SettleR(reactions, t)
    /\ UNCHANGED <<lastPromise, ncalls, fun, parent, started, sleeping, returned, startOrder>>

\* The body of a function resumes after its `await` (of sleep(), or of
\* the nested executeSynchronized) and runs to its end.
RunResume ==
    /\ HeadIs("resume")
    /\ Ran
    /\ LET j == Head(microtasks)
           f == F(j.call)
       IN
        /\ pstate' = [pstate EXCEPT ![f] =
                        IF pstate[j.src] = "rejected" \/ Fails(fun[j.call])
                        THEN "rejected" ELSE "fulfilled"]
        /\ pvalue' = [pvalue EXCEPT ![f] =
                        IF pstate[j.src] = "rejected" THEN pvalue[j.src] ELSE j.call]
        /\ microtasks' = SettleQ(reactions, Tail(microtasks), f)
        /\ reactions' = SettleR(reactions, f)
    /\ UNCHANGED <<lastPromise, ncalls, fun, parent, started, sleeping, returned, startOrder>>

\* The timer of sleep() fires (a macrotask: the microtask queue is empty)
\* and resolves the promise the body of fun c awaits.
SleepDone(c) ==
    /\ c \in sleeping
    /\ microtasks = <<>>
    /\ Ran
    /\ sleeping' = sleeping \ {c}
    /\ pstate' = [pstate EXCEPT ![SleepP(c)] = "fulfilled"]
    /\ pvalue' = [pvalue EXCEPT ![SleepP(c)] = Undefined]
    /\ microtasks' = SettleQ(reactions, microtasks, SleepP(c))
    /\ reactions' = SettleR(reactions, SleepP(c))
    /\ UNCHANGED <<lastPromise, ncalls, fun, parent, started, returned, startOrder>>

NextLock ==
    \/ \E kind \in FunKinds : ExecuteSynchronized(kind) /\ UNCHANGED exceptLock
    \/ RunThen /\ UNCHANGED exceptLock
    \/ RunAdopt /\ UNCHANGED exceptLock
    \/ RunForward /\ UNCHANGED exceptLock
    \/ RunNoop /\ UNCHANGED exceptLock
    \/ RunResume /\ UNCHANGED exceptLock
    \/ \E c \in Calls : SleepDone(c) /\ UNCHANGED exceptLock

(***************************************************************************)
(* Event, src/src/event.ts.                                                *)
(***************************************************************************)
\* The values passed to emit.  The event never inspects them, so they are
\* named in the order of their first use: an emit passes a value already
\* emitted or the next unused one.
Data == 1..MaxEmits

Used(history) == {history[i].data : i \in 1..Len(history)}

Fresh(history, data) == \A d \in Data : d < data => d \in Used(history)

\* The listeners of the model: callbacks with an odd number throw whenever
\* they are invoked, the others return.
CallbackThrows(cb) == cb % 2 = 1

NoCall == [cb |-> 0, emits |-> 0]

\* The caller of on() or once() keeps the function returned, while it
\* holds fewer than MaxHandles of them, or drops it.
Keep(held, h) ==
    {held} \cup (IF Cardinality(held \cup {h}) <= MaxHandles THEN {held \cup {h}} ELSE {})

Forget(marks, cb) == {m \in marks : m.cb # cb}

InitEvent ==
    /\ listeners = <<>>
    /\ onceListeners = <<>>
    /\ immediates = <<>>
    /\ handles = {}
    /\ emitted = <<>>
    /\ invoked = <<>>
    /\ logged = 0
    /\ crashed = FALSE
    /\ promoted = {}
    /\ inertCall = NoCall

\* Set.has, Set.add and Set.delete on a Set kept as its insertion order.
Has(set, x) == \E i \in 1..Len(set) : set[i] = x

Add(set, x) == IF Has(set, x) THEN set ELSE Append(set, x)

Delete(set, x) == SelectSeq(set, LAMBDA y : y # x)

Elements(set) == {set[i] : i \in 1..Len(set)}

\* An emit that visits the one-shot listeners first.
EmitOrderOnceFirst(persistent, once) == once \o persistent

\* emit, lines 46-53: the listeners in the order the two loops visit them.
EmitOrder(persistent, once) == persistent \o once

\* An emit that leaves the one-shot listeners registered.
EmitOnceKept(once) == once

\* emit, line 52: every one-shot listener visited is deleted.
EmitOnceRemaining(once) == <<>>

\* A _trigger whose closure runs before the closures already queued.
TriggerFront(sched, cb, data, e) ==
    [sched EXCEPT !.queue = <<[cb |-> cb, data |-> data, emit |-> e]>> \o @]

\* A _trigger that queues nothing.
TriggerDropped(sched, cb, data, e) == sched

\* A _trigger that calls the listener itself, inside emit.
TriggerInline(sched, cb, data, e) ==
    [sched EXCEPT !.calls = Append(@, [cb |-> cb, data |-> data, emit |-> e,
                                       threw |-> FALSE])]

\* _trigger, line 57: setImmediate queues the closure over listener and
\* data; the listener is not called.  sched is the host seen by emit: the
\* setImmediate queue and the listener calls made so far.
Trigger(sched, cb, data, e) ==
    [sched EXCEPT !.queue = Append(@, [cb |-> cb, data |-> data, emit |-> e])]

RECURSIVE TriggerAll(_, _, _, _)
TriggerAll(sched, order, data, e) ==
    IF order = <<>> THEN sched
    ELSE TriggerAll(Trigger(sched, Head(order), data, e), Tail(order), data, e)

Emit(data) ==
    /\ ~crashed
    /\ Len(emitted) < MaxEmits
    /\ Fresh(emitted, data)
    /\ LET e == Len(emitted) + 1
           sched == TriggerAll([queue |-> immediates, calls |-> invoked],
                               EmitOrder(listeners, onceListeners), data, e)
       IN
        /\ immediates' = sched.queue
        /\ invoked' = sched.calls
        /\ onceListeners' = EmitOnceRemaining(onceListeners)
        /\ emitted' = Append(emitted, [data |-> data, persistent |-> listeners,
                                       once |-> onceListeners])
    /\ UNCHANGED <<listeners, handles, logged, crashed, promoted, inertCall>>

\* A _trigger whose closure has no try/catch.
TryCatchMissing(threw) == IF threw THEN "uncaught" ELSE "returned"

\* _trigger, lines 58-62: the try/catch around the listener.
TryCatch(threw) == IF threw THEN "logged" ELSE "returned"

\* The host runs the oldest setImmediate callback.
RunImmediate ==
    /\ ~crashed
    /\ immediates # <<>>
    /\ Head(immediates).cb \in Callbacks
    /\ LET t == Head(immediates)
           threw == CallbackThrows(t.cb)
           end == TryCatch(threw)
       IN
        /\ immediates' = Tail(immediates)
        /\ invoked' = Append(invoked, [cb |-> t.cb, data |-> t.data, emit |-> t.emit,
                                       threw |-> threw])
        /\ logged' = IF end = "logged" THEN logged + 1 ELSE logged
        /\ crashed' = (end = "uncaught")
    /\ UNCHANGED <<listeners, onceListeners, handles, emitted, promoted, inertCall>>

\* An on() that leaves a one-shot registration in place.
OnOnceKept(once, cb) == once

\* on, lines 75-77.
OnOnce(once, cb) == Delete(once, cb)

\* on, lines 74-81.
On(cb) ==
    /\ ~crashed
    /\ onceListeners' = OnOnce(onceListeners, cb)
    /\ listeners' = Add(listeners, cb)
    /\ handles' \in Keep(handles, [kind |-> "off", cb |-> cb, inert |-> FALSE])
    /\ promoted' = IF Has(onceListeners, cb)
                   THEN Forget(promoted, cb) \cup {[cb |-> cb, emits |-> Len(emitted)]}
                   ELSE promoted
    /\ UNCHANGED <<immediates, emitted, invoked, logged, crashed, inertCall>>

\* An off() that leaves the persistent registration in place.
OffPersistentKept(persistent, cb) == persistent

\* off, line 93.
OffPersistent(persistent, cb) == Delete(persistent, cb)

\* off, lines 92-95.
Off(cb) ==
    /\ ~crashed
    /\ listeners' = OffPersistent(listeners, cb)
    /\ onceListeners' = Delete(onceListeners, cb)
    /\ promoted' = Forget(promoted, cb)
    /\ UNCHANGED <<immediates, handles, emitted, invoked, logged, crashed, inertCall>>

\* A once() that registers the callback whether or not it is persistent.
OnceAlways(persistent, once, cb) == Add(once, cb)

\* once, lines 105-109: the one-shot set after the call.
OnceAdd(persistent, once, cb) == IF Has(persistent, cb) THEN once ELSE Add(once, cb)

\* once, lines 106 and 110: the function returned.
OnceHandle(persistent, cb) == IF Has(persistent, cb) THEN "noop" ELSE "deleteOnce"

\* once, lines 104-111.
Once(cb) ==
    /\ ~crashed
    /\ onceListeners' = OnceAdd(listeners, onceListeners, cb)
    /\ handles' \in Keep(handles, [kind |-> OnceHandle(listeners, cb), cb |-> cb,
                                    inert |-> Has(listeners, cb)])
    /\ UNCHANGED <<listeners, immediates, emitted, invoked, logged, crashed, promoted,
                   inertCall>>

\* A call of a function returned by on() (line 80) or once() (lines 106, 110).
Unsubscribe(h) ==
    /\ ~crashed
    /\ h \in handles
    /\ listeners' = IF h.kind = "off" THEN OffPersistent(listeners, h.cb) ELSE listeners
    /\ onceListeners' = IF h.kind \in {"off", "deleteOnce"}
                         THEN Delete(onceListeners, h.cb) ELSE onceListeners
    /\ promoted' = IF h.kind = "off" THEN Forget(promoted, h.cb) ELSE promoted
    /\ inertCall' = IF h.inert THEN [cb |-> h.cb, emits |-> Len(emitted)] ELSE inertCall
    /\ UNCHANGED <<immediates, handles, emitted, invoked, logged, crashed>>

HandleKinds == {"off", "noop", "deleteOnce"}

Handles == [kind : HandleKinds, cb : Callbacks, inert : BOOLEAN]

NextEvent ==
    \/ \E data \in Data : Emit(data) /\ UNCHANGED exceptEvent
    \/ RunImmediate /\ UNCHANGED exceptEvent
    \/ \E cb \in Callbacks : On(cb) /\ UNCHANGED exceptEvent
    \/ \E cb \in Callbacks : Off(cb) /\ UNCHANGED exceptEvent
    \/ \E cb \in Callbacks : Once(cb) /\ UNCHANGED exceptEvent
    \/ \E h \in Handles : Unsubscribe(h) /\ UNCHANGED exceptEvent

(***************************************************************************)
(* Listeners that act on the event during their invocation.                *)
(***************************************************************************)
\* A persistent listener whose body calls off(itself), or the function on()
\* returned for it, which is () => this.off(callback) (line 80).
SelfUnsubscribers == {11}

\* A listener whose body calls emit on the same event, while the bound on
\* emits allows one more.
Emitters == {12}

TimesInvoked(seq, cb) == Cardinality({i \in 1..Len(seq) : seq[i].cb = cb})

Marked(marks, cb) == \E m \in marks : m.cb = cb

\* The host runs the setImmediate callback of a listener that unsubscribes
\* itself: _trigger lines 58-62 around a call of off, lines 92-95.
RunSelfUnsubscriber ==
    /\ ~crashed
    /\ immediates # <<>>
    /\ Head(immediates).cb \in SelfUnsubscribers
    /\ LET t == Head(immediates) IN
        /\ immediates' = Tail(immediates)
        /\ invoked' = Append(invoked, [cb |-> t.cb, data |-> t.data, emit |-> t.emit,
                                       threw |-> FALSE])
        /\ listeners' = OffPersistent(listeners, t.cb)
        /\ onceListeners' = Delete(onceListeners, t.cb)
        /\ promoted' = Forget(promoted, t.cb)
        /\ selfOff' = IF Marked(selfOff, t.cb) THEN selfOff
                      ELSE selfOff \cup {[cb |-> t.cb, emits |-> Len(emitted),
                                          count |-> TimesInvoked(invoked', t.cb)]}
    /\ UNCHANGED <<handles, emitted, logged, crashed, inertCall, nestedEmits>>

\* The host runs the setImmediate callback of a listener that emits:
\* _trigger lines 58-62 around a call of emit, lines 45-54.
RunEmitter(data) ==
    /\ ~crashed
    /\ immediates # <<>>
    /\ Head(immediates).cb \in Emitters
    /\ LET t == Head(immediates)
           call == [cb |-> t.cb, data |-> t.data, emit |-> t.emit, threw |-> FALSE]
           e == Len(emitted) + 1
           sched == TriggerAll([queue |-> Tail(immediates), calls |-> Append(invoked, call)],
                               EmitOrder(listeners, onceListeners), data, e)
       IN
        IF Len(emitted) < MaxEmits
        THEN /\ Fresh(emitted, data)
             /\ immediates' = sched.queue
             /\ invoked' = sched.calls
             /\ onceListeners' = EmitOnceRemaining(onceListeners)
             /\ emitted' = Append(emitted, [data |-> data, persistent |-> listeners,
                                            once |-> onceListeners])
             /\ nestedEmits' = nestedEmits \cup {e}
        ELSE /\ data = 1
             /\ immediates' = Tail(immediates)
             /\ invoked' = Append(invoked, call)
             /\ UNCHANGED <<onceListeners, emitted, nestedEmits>>
    /\ UNCHANGED <<listeners, handles, logged, crashed, promoted, inertCall, selfOff>>

\* The callers of this environment drop the function on() returns.
ActingListeners == SelfUnsubscribers \cup Emitters

NextListeners ==
    \/ \E data \in Data : Emit(data) /\ UNCHANGED <<exceptListeners, listenerVars>>
    \/ \E cb \in ActingListeners :
            On(cb) /\ handles' = handles /\ selfOff' = Forget(selfOff, cb)
                   /\ UNCHANGED <<exceptListeners, nestedEmits>>
    \/ \E cb \in ActingListeners : Off(cb) /\ UNCHANGED <<exceptListeners, listenerVars>>
    \/ RunSelfUnsubscriber /\ UNCHANGED exceptListeners
    \/ \E data \in Data : RunEmitter(data) /\ UNCHANGED exceptListeners

InitListeners ==
    /\ selfOff = {}
    /\ nestedEmits = {}

(***************************************************************************)
(* waitFor and waitForCount, src/src/event.ts lines 124-147.               *)
(***************************************************************************)
Waiters == 1..NumWaiters

\* The listener waitFor passes to on (lines 131-136), a function of its own
\* for every call.
WaiterListener(w) == 20 + w

WaiterListeners == {WaiterListener(w) : w \in Waiters}

WaiterOf(cb) == cb - 20

\* The predicates of the model: the set of the values they accept.
Predicates == SUBSET Data

\* The counts passed to waitForCount: one more than the emits allowed is
\* never reached.
Counts == 1..(MaxEmits + 1)

NoWaiter == [state |-> "none", kind |-> "none", accepts |-> {}, expected |-> 0,
             count |-> 0, value |-> Undefined, since |-> 0]

InitWait == waiters = [w \in Waiters |-> NoWaiter]

\* The calls are numbered in the order they are made.
NextWaiter(w) == waiters[w].state = "none" /\ \A v \in 1..(w - 1) : waiters[v].state # "none"

\* waitFor, lines 129-138: the executor subscribes the listener with on.
WaitFor(w, accepts) ==
    /\ ~crashed
    /\ NextWaiter(w)
    /\ waiters' = [waiters EXCEPT ![w] = [NoWaiter EXCEPT !.state = "pending",
                        !.kind = "predicate", !.accepts = accepts, !.since = Len(emitted)]]
    /\ listeners' = Add(listeners, WaiterListener(w))
    /\ UNCHANGED <<onceListeners, immediates, handles, emitted, invoked, logged, crashed,
                   promoted, inertCall>>

\* waitForCount, lines 144-147: waitFor with a predicate that counts.
WaitForCount(w, expected) ==
    /\ ~crashed
    /\ NextWaiter(w)
    /\ waiters' = [waiters EXCEPT ![w] = [NoWaiter EXCEPT !.state = "pending",
                        !.kind = "count", !.expected = expected, !.since = Len(emitted)]]
    /\ listeners' = Add(listeners, WaiterListener(w))
    /\ UNCHANGED <<onceListeners, immediates, handles, emitted, invoked, logged, crashed,
                   promoted, inertCall>>

\* A listener that takes every value for a match.
SatisfiesAny(accepts, data) == TRUE

\* waitFor, line 132: predicate(data).
Satisfies(accepts, data) == data \in accepts

\* A counting predicate that compares before it increments.
CountReachedBefore(count, expected) == count = expected

\* waitForCount, line 146: ++count === expectedCount.
CountReached(count, expected) == count + 1 = expected

\* Promise resolve, line 134: the first call settles the promise, a later
\* one changes nothing.
Resolve(waiter, data) ==
    IF waiter.state = "pending" THEN [waiter EXCEPT !.state = "resolved", !.value = data]
    ELSE waiter

\* The host runs the setImmediate callback of a waitFor listener: _trigger
\* lines 58-62 around lines 131-136.
RunWaiter ==
    /\ ~crashed
    /\ immediates # <<>>
    /\ Head(immediates).cb \in WaiterListeners
    /\ LET t == Head(immediates)
           w == WaiterOf(t.cb)
           counted == IF waiters[w].kind = "count"
                      THEN [waiters[w] EXCEPT !.count = @ + 1] ELSE waiters[w]
           matches == IF waiters[w].kind = "count"
                      THEN CountReached(waiters[w].count, waiters[w].expected)
                      ELSE Satisfies(waiters[w].accepts, t.data)
       IN
        /\ immediates' = Tail(immediates)
        /\ invoked' = Append(invoked, [cb |-> t.cb, data |-> t.data, emit |-> t.emit,
                                       threw |-> FALSE])
        /\ listeners' = IF matches THEN OffPersistent(listeners, t.cb) ELSE listeners
        /\ onceListeners' = IF matches THEN Delete(onceListeners, t.cb) ELSE onceListeners
        /\ waiters' = [waiters EXCEPT ![w] = IF matches THEN Resolve(counted, t.data)
                                                        ELSE counted]
    /\ UNCHANGED <<handles, emitted, logged, crashed, promoted, inertCall>>

NextWait ==
    \/ \E data \in Data : Emit(data) /\ UNCHANGED <<exceptWait, waitVars>>
    \/ \E w \in Waiters, accepts \in Predicates : WaitFor(w, accepts) /\ UNCHANGED exceptWait
    \/ \E w \in Waiters, expected \in Counts :
            WaitForCount(w, expected) /\ UNCHANGED exceptWait
    \/ RunWaiter /\ UNCHANGED exceptWait

(***************************************************************************)
(* The asynchronous iterator, src/src/event.ts lines 118-122.              *)
(***************************************************************************)
Consumers == 1..NumConsumers

\* The resolve function the iterator of consumer c passes to once (line
\* 120).  Each round creates a new one; the one of the round before has
\* left the one-shot set when the next is registered, so one name serves.
ResolverListener(c) == 30 + c

ResolverListeners == {ResolverListener(c) : c \in Consumers}

ConsumerOf(cb) == cb - 30

\* The loop bodies of the model: one that only records the value, and one
\* that awaits something else before it asks for the next value.
Bodies == {"sync", "async"}

NoConsumer == [state |-> "idle", body |-> "none", since |-> 0, received |-> <<>>]

InitIter == consumers = [c \in Consumers |-> NoConsumer]

\* The first next() of a `for await` loop: the generator runs to its first
\* await, lines 119-120, and the executor registers resolve with once.
StartIterating(c, body) ==
    /\ ~crashed
    /\ consumers[c].state = "idle"
    /\ \A d \in 1..(c - 1) : consumers[d].state # "idle"
    /\ consumers' = [consumers EXCEPT ![c] = [NoConsumer EXCEPT !.state = "waiting",
                            !.body = body, !.since = Len(emitted)]]
    /\ onceListeners' = OnceAdd(listeners, onceListeners, ResolverListener(c))
    /\ UNCHANGED <<listeners, immediates, handles, emitted, invoked, logged, crashed,
                   promoted, inertCall>>

\* The host runs the setImmediate callback of a resolve function: the
\* promise of line 120 is fulfilled, and in the microtasks that follow the
\* generator yields the value and the loop body receives it.  A body that
\* does not wait calls next() in the same microtasks, which takes the
\* generator round the loop to the next once(resolve).
RunResolver ==
    /\ ~crashed
    /\ immediates # <<>>
    /\ Head(immediates).cb \in ResolverListeners
    /\ LET t == Head(immediates)
           c == ConsumerOf(t.cb)
           again == consumers[c].body = "sync"
       IN
        /\ immediates' = Tail(immediates)
        /\ invoked' = Append(invoked, [cb |-> t.cb, data |-> t.data, emit |-> t.emit,
                                       threw |-> FALSE])
        /\ consumers' = [consumers EXCEPT ![c].received = Append(@, t.data),
                                          ![c].state = IF again THEN "waiting" ELSE "busy"]
        /\ onceListeners' = IF again THEN OnceAdd(listeners, onceListeners, t.cb)
                            ELSE onceListeners
    /\ UNCHANGED <<listeners, handles, emitted, logged, crashed, promoted, inertCall>>

\* A body that waited is done and the loop calls next(): lines 119-120.
RequestNext(c) ==
    /\ ~crashed
    /\ consumers[c].state = "busy"
    /\ consumers' = [consumers EXCEPT ![c].state = "waiting"]
    /\ onceListeners' = OnceAdd(listeners, onceListeners, ResolverListener(c))
    /\ UNCHANGED <<listeners, immediates, handles, emitted, invoked, logged, crashed,
                   promoted, inertCall>>

NextIter ==
    \/ \E data \in Data : Emit(data) /\ UNCHANGED <<exceptIter, iterVars>>
    \/ \E c \in Consumers, body \in Bodies : StartIterating(c, body) /\ UNCHANGED exceptIter
    \/ RunResolver /\ UNCHANGED exceptIter
    \/ \E c \in Consumers : RequestNext(c) /\ UNCHANGED exceptIter

(***************************************************************************)
(* The deadline race: runWithTimeout, src/src/run-with-timeout.ts lines    *)
(* 7-17, and promiseTimeout, src/src/async.js lines 98-123.                *)
(***************************************************************************)
Races == 1..NumRaces

RaceImpls == {"runWithTimeout", "promiseTimeout"}

\* How the action ends: with its value or with its error.
ActionOutcomes == {"value", "error"}

\* races[r].action is the promise of the action, .timer the timer of the
\* call, .timeoutP the promise the timer rejects, .race the promise of
\* Promise.race, .result the promise returned to the caller, and .first
\* the side that settled first.
NoRace == [impl |-> "none", action |-> "none", timer |-> "none", timeoutP |-> "pending",
           race |-> "pending", result |-> "pending", first |-> "none"]

InitRace ==
    /\ races = [r \in Races |-> NoRace]
    /\ raceJobs = <<>>

RaceJob(r, type, side) == [race |-> r, type |-> type, side |-> side]

\* A promise that takes every settlement, the last one winning.
SettleOverwrite(current, outcome) == outcome

\* A promise settles once: resolve and reject do nothing on a settled one.
Settle(current, outcome) == IF current = "pending" THEN outcome ELSE current

\* runWithTimeout, lines 13-16, and promiseTimeout, lines 98-122: the
\* timer is started and Promise.race subscribes to both promises.  The
\* action may have ended already.
CallRace(r, impl, action) ==
    /\ races[r].impl = "none"
    /\ \A q \in 1..(r - 1) : races[q].impl # "none"
    /\ races' = [races EXCEPT ![r] = [NoRace EXCEPT !.impl = impl, !.action = action,
                        !.timer = "pending",
                        !.first = IF action = "pending" THEN "none" ELSE "action"]]
    /\ raceJobs' = IF action = "pending" THEN raceJobs
                   ELSE Append(raceJobs, RaceJob(r, "race", "action"))

\* The action of race r ends, in a task of its own.
ActionSettles(r, outcome) ==
    /\ races[r].action = "pending"
    /\ raceJobs = <<>>
    /\ races' = [races EXCEPT ![r].action = outcome,
                              ![r].first = IF @ = "none" THEN "action" ELSE @]
    /\ raceJobs' = Append(raceJobs, RaceJob(r, "race", "action"))

\* The timer of race r fires: run-with-timeout.ts line 10, async.js lines
\* 102-104.
TimerFires(r) ==
    /\ races[r].timer = "pending"
    /\ raceJobs = <<>>
    /\ races' = [races EXCEPT ![r].timer = "fired",
                              ![r].timeoutP = Settle(@, "rejected"),
                              ![r].first = IF @ = "none" THEN "timer" ELSE @]
    /\ raceJobs' = IF races[r].timeoutP = "pending"
                   THEN Append(raceJobs, RaceJob(r, "race", "timer")) ELSE raceJobs

\* What a settled side brings to Promise.race.
SideOutcome(race, side) ==
    IF side = "action" THEN race.action
    ELSE IF side = "timer" THEN "timeout"
    ELSE "undefined"

\* The reaction of Promise.race to one of its two promises.  The promise
\* of runWithTimeout is the race itself, and nothing there touches the
\* timer (lines 10-16); promiseTimeout has subscribed to the race with
\* then (lines 115-121).
RunRaceReaction ==
    /\ raceJobs # <<>>
    /\ Head(raceJobs).type = "race"
    /\ LET j == Head(raceJobs)
           r == j.race
           won == races[r].race = "pending"
           after == Settle(races[r].race, SideOutcome(races[r], j.side))
       IN
        /\ races' = [races EXCEPT ![r].race = after,
                        ![r].result = IF races[r].impl = "runWithTimeout" THEN after ELSE @]
        /\ raceJobs' = IF won /\ races[r].impl = "promiseTimeout"
                       THEN Append(Tail(raceJobs), RaceJob(r, "outer", j.side))
                       ELSE Tail(raceJobs)

\* promiseTimeout, lines 115-121: stopTimer, then the outcome of the race
\* goes to the promise returned.  stopTimer resolves the timer's promise,
\* to which the race is still subscribed.
RunOuterReaction ==
    /\ raceJobs # <<>>
    /\ Head(raceJobs).type = "outer"
    /\ LET j == Head(raceJobs)
           r == j.race
       IN
        /\ races' = [races EXCEPT
                        ![r].timer = IF @ = "pending" THEN "cleared" ELSE @,
                        ![r].timeoutP = Settle(@, "fulfilled"),
                        ![r].result = Settle(@, races[r].race)]
        /\ raceJobs' = IF races[r].timeoutP = "pending"
                       THEN Append(Tail(raceJobs), RaceJob(r, "race", "stopped"))
                       ELSE Tail(raceJobs)

NextRace ==
    \/ \E r \in Races, impl \in RaceImpls, action \in {"pending"} \cup ActionOutcomes :
            CallRace(r, impl, action) /\ UNCHANGED exceptRace
    \/ \E r \in Races, outcome \in ActionOutcomes :
            ActionSettles(r, outcome) /\ UNCHANGED exceptRace
    \/ \E r \in Races : TimerFires(r) /\ UNCHANGED exceptRace
    \/ RunRaceReaction /\ UNCHANGED exceptRace
    \/ RunOuterReaction /\ UNCHANGED exceptRace

(***************************************************************************)
(* trigger: src/src/run-with-timeout.ts lines 22-35 and src/src/async.js   *)
(* lines 46-64.                                                            *)
(***************************************************************************)
Triggers == 1..NumTriggers

TriggerImpls == {"run-with-timeout.ts", "async.js"}

Pending == [state |-> "pending", value |-> Undefined]

Fulfilled(value) == [state |-> "fulfilled", value |-> value]

\* A timer whose callback resolves the promise.
TimedOutResolved == [state |-> "fulfilled", value |-> Undefined]

\* The rejection of the timer's callback, `new Error('Timed out after ...')`.
TimedOut == [state |-> "rejected", value |-> Undefined]

\* triggers[t].promise is `promise`; .wrapper is the promise of the async
\* provider of async.js (line 61), "none" before the provider is called;
\* .subscribed says that the wrapper has called promise.then; .provided
\* that the provider was called; .args are the arguments of the resolver
\* calls made; .first is what came first, a resolver call or the timer.
NoTrigger == [impl |-> "none", timer |-> "none", promise |-> Pending, provided |-> FALSE,
              wrapper |-> Pending, subscribed |-> FALSE, args |-> <<>>, first |-> "none"]

InitTrigger ==
    /\ triggers = [t \in Triggers |-> NoTrigger]
    /\ triggerJobs = <<>>

TriggerJob(t, type) == [trigger |-> t, type |-> type]

\* A promise that takes every settlement, the last one winning.
SettlePromiseOverwrite(promise, outcome) == outcome

\* resolve and reject of `promise`: they do nothing on a settled promise.
SettlePromise(promise, outcome) == IF promise.state = "pending" THEN outcome ELSE promise

\* run-with-timeout.ts lines 25-27, async.js lines 49-50: the timer is
\* started only for a timeout that is given and not 0.
TimerStarted(timeout) == IF timeout THEN "pending" ELSE "none"

\* trigger(timeout).
CreateTrigger(t, impl, timeout) ==
    /\ triggers[t].impl = "none"
    /\ \A u \in 1..(t - 1) : triggers[u].impl # "none"
    /\ triggers' = [triggers EXCEPT ![t] = [NoTrigger EXCEPT !.impl = impl,
                            !.timer = TimerStarted(timeout)]]
    /\ UNCHANGED triggerJobs

\* The jobs a settlement of `promise` queues: the reaction of the wrapper,
\* if it has subscribed.
Reactions(trigger, t, after) ==
    IF trigger.promise.state = "pending" /\ after.state # "pending" /\ trigger.subscribed
    THEN <<TriggerJob(t, "forward")>> ELSE <<>>

\* The provider is called.  In run-with-timeout.ts it returns `promise`
\* (line 32); in async.js it is an async function returning `promise`
\* (line 61), whose own promise adopts it in a job.
Provide(t) ==
    /\ triggers[t].impl # "none"
    /\ ~triggers[t].provided
    /\ triggers' = [triggers EXCEPT ![t].provided = TRUE]
    /\ triggerJobs' = IF triggers[t].impl = "async.js"
                      THEN Append(triggerJobs, TriggerJob(t, "adopt")) ELSE triggerJobs

\* The timer after a resolver call: async.js clears it (lines 53-55),
\* run-with-timeout.ts has only `callback = resolve` (line 28).
TimerAfterResolver(impl, timer) ==
    IF impl = "async.js" /\ timer = "pending" THEN "cleared" ELSE timer

\* The resolver is called; the k-th call passes the value k.
CallResolver(t) ==
    /\ triggers[t].impl # "none"
    /\ Len(triggers[t].args) < MaxResolves
    /\ LET value == Len(triggers[t].args) + 1
           after == SettlePromise(triggers[t].promise, Fulfilled(value))
       IN
        /\ triggers' = [triggers EXCEPT ![t].args = Append(@, value),
                            ![t].timer = TimerAfterResolver(triggers[t].impl, @),
                            ![t].promise = after,
                            ![t].first = IF @ = "none" THEN "resolver" ELSE @]
        /\ triggerJobs' = triggerJobs \o Reactions(triggers[t], t, after)

\* The timer fires, in a task of its own: run-with-timeout.ts line 26,
\* async.js line 50.
TriggerTimerFires(t) ==
    /\ triggers[t].timer = "pending"
    /\ triggerJobs = <<>>
    /\ LET after == SettlePromise(triggers[t].promise, TimedOut) IN
        /\ triggers' = [triggers EXCEPT ![t].timer = "fired",
                            ![t].promise = after,
                            ![t].first = IF @ = "none" THEN "timer" ELSE @]
        /\ triggerJobs' = triggerJobs \o Reactions(triggers[t], t, after)

\* The wrapper of async.js subscribes to `promise`; a settled promise
\* queues the reaction at once.
RunTriggerAdopt ==
    /\ triggerJobs # <<>>
    /\ Head(triggerJobs).type = "adopt"
    /\ LET t == Head(triggerJobs).trigger IN
        /\ triggers' = [triggers EXCEPT ![t].subscribed = TRUE]
        /\ triggerJobs' = IF triggers[t].promise.state = "pending" THEN Tail(triggerJobs)
                          ELSE Append(Tail(triggerJobs), TriggerJob(t, "forward"))

\* The reaction of the wrapper: it takes the outcome of `promise`.
RunTriggerForward ==
    /\ triggerJobs # <<>>
    /\ Head(triggerJobs).type = "forward"
    /\ LET t == Head(triggerJobs).trigger IN
        /\ triggers' = [triggers EXCEPT
                            ![t].wrapper = SettlePromise(@, triggers[t].promise)]
        /\ triggerJobs' = Tail(triggerJobs)

NextTrigger ==
    \/ \E t \in Triggers, impl \in TriggerImpls, timeout \in BOOLEAN :
            CreateTrigger(t, impl, timeout) /\ UNCHANGED exceptTrigger
    \/ \E t \in Triggers : Provide(t) /\ UNCHANGED exceptTrigger
    \/ \E t \in Triggers : CallResolver(t) /\ UNCHANGED exceptTrigger
    \/ \E t \in Triggers : TriggerTimerFires(t) /\ UNCHANGED exceptTrigger
    \/ RunTriggerAdopt /\ UNCHANGED exceptTrigger
    \/ RunTriggerForward /\ UNCHANGED exceptTrigger

Init ==
    /\ InitLock /\ InitEvent /\ InitListeners /\ InitWait /\ InitIter /\ InitRace
    /\ InitTrigger

SpecLock == Init /\ [][NextLock]_vars

\* The host runs every promise job it has queued.
RunJob == (RunThen \/ RunAdopt \/ RunForward \/ RunNoop \/ RunResume) /\ UNCHANGED exceptLock

\* The lock on a host that runs every queued promise job and fires every
\* timer: a function that sleeps ends.
SpecLockFair ==
    /\ SpecLock
    /\ WF_vars(RunJob)
    /\ \A c \in Calls : WF_vars(SleepDone(c) /\ UNCHANGED exceptLock)

SpecEvent == Init /\ [][NextEvent]_vars

SpecListeners == Init /\ [][NextListeners]_vars

SpecWait == Init /\ [][NextWait]_vars

SpecIter == Init /\ [][NextIter]_vars

SpecRace == Init /\ [][NextRace]_vars

SpecTrigger == Init /\ [][NextTrigger]_vars

(***************************************************************************)
(* Properties of the lock.                                                 *)
(***************************************************************************)
Made == 1..ncalls

Settled(p) == pstate[p] # "pending"

\* Nothing is queued and no timer is pending: the lock has come to rest.
Quiescent == microtasks = <<>> /\ sleeping = {}

Running(c) == started[c] /\ ~Settled(F(c))

\* The outcome the function of call c produces when its body ends.
OwnState(c) == IF Fails(fun[c]) THEN "rejected" ELSE "fulfilled"

\* No function up to call c awaits the lock from inside the lock.
NoReentryUpTo(c) == \A d \in 1..c : fun[d] # "reenter"

\* C1 (mutual exclusion): in every reachable state at most one of the
\* enqueued functions has started and not yet settled.
MutualExclusion == Cardinality({c \in Made : Running(c)}) <= 1

\* One function sleeps inside the lock while a later one has been
\* enqueued and an earlier one has finished.
MutualExclusionWitness ==
    \E c \in Made :
        /\ c \in sleeping
        /\ c > 1 /\ Settled(F(c - 1))
        /\ c < ncalls /\ ~started[c + 1]

\* C2 (FIFO): the bodies begin in the order of the calls, and the body of
\* call c+1 has not begun while the promise returned for call c is pending.
FifoOrder ==
    /\ \A i \in 1..Len(startOrder) : startOrder[i] = i
    /\ \A c \in Made : c > 1 /\ started[c] => Settled(returned[c - 1])

\* All MaxCalls calls were made back to back, before any job ran, and all
\* their bodies have begun.
FifoOrderWitness ==
    /\ firstRunAt = MaxCalls
    /\ Len(startOrder) = MaxCalls
    /\ \E c \in Made : Sleeps(fun[c])

\* C3 (failure isolation): the promise returned for a failing function
\* rejects with its own error, the tail never rejects, no later promise
\* rejects with that error, and once the lock is at rest every later
\* function (re-entrant deadlocks aside) has run and its promise has settled
\* with its own outcome.
FailureIsolation ==
    \A k \in Made : Fails(fun[k]) =>
        /\ pstate[returned[k]] # "fulfilled"
        /\ pstate[returned[k]] = "rejected" => pvalue[returned[k]] = k
        /\ Quiescent /\ NoReentryUpTo(k) => pstate[returned[k]] = "rejected"
        /\ pstate[T(k)] # "rejected"
        /\ \A c \in Made : c > k =>
            /\ pstate[returned[c]] = "rejected" => Fails(fun[c]) /\ pvalue[returned[c]] = c
            /\ Quiescent /\ NoReentryUpTo(c) =>
                    started[c] /\ pstate[returned[c]] = OwnState(c)

\* The test 'errors do not break the lock': a throwing function, then a
\* noop; the first promise rejected, the second resolved.
FailureIsolationWitness ==
    /\ ncalls >= 2
    /\ fun[1] = "throw" /\ fun[2] = "value"
    /\ pstate[returned[1]] = "rejected"
    /\ started[2] /\ pstate[returned[2]] = "fulfilled"

\* C4 (re-entrant deadlock): once a function running under the lock has
\* called executeSynchronized on the same lock and awaits it, the inner
\* function never starts and the promise of the outer call never settles.
ReentrantDeadlock ==
    \A c \in Made : parent[c] # 0 =>
        /\ ~started[c]
        /\ pstate[returned[c]] = "pending"
        /\ pstate[F(parent[c])] = "pending"
        /\ pstate[returned[parent[c]]] = "pending"

\* The outer function has made its nested call and the lock has come to
\* rest, with every call the bound allows made.
ReentrantDeadlockWitness ==
    /\ \E c \in Made : parent[c] # 0 /\ started[parent[c]]
    /\ Quiescent
    /\ ncalls = MaxCalls

\* C5 (own outcome): a settled returned promise carries the state and the
\* value of the function passed to that same call, whose body has ended.
OwnOutcome ==
    \A c \in Made : Settled(returned[c]) =>
        /\ started[c]
        /\ Settled(F(c))
        /\ pstate[returned[c]] = pstate[F(c)]
        /\ pvalue[returned[c]] = pvalue[F(c)]
        /\ pstate[returned[c]] = OwnState(c)
        /\ pvalue[returned[c]] = c

\* Two calls with different outcomes have both settled: a value after a
\* sleep, then an error.
OwnOutcomeWitness ==
    /\ ncalls >= 2
    /\ fun[1] = "sleepValue" /\ fun[2] = "throw"
    /\ pstate[returned[1]] = "fulfilled" /\ pvalue[returned[1]] = 1
    /\ pstate[returned[2]] = "rejected" /\ pvalue[returned[2]] = 2

(***************************************************************************)
(* Properties of the event.                                                *)
(***************************************************************************)
Emits == 1..Len(emitted)

Count(seq, cb, e) == Cardinality({i \in 1..Len(seq) : seq[i].cb = cb /\ seq[i].emit = e})

\* The invocations of cb for emit e, made or still queued.
Deliveries(cb, e) == Count(invoked, cb, e) + Count(immediates, cb, e)

\* Every invocation, made or queued, carries the value of its emit.
ValuesKept ==
    /\ \A i \in 1..Len(invoked) : invoked[i].data = emitted[invoked[i].emit].data
    /\ \A i \in 1..Len(immediates) : immediates[i].data = emitted[immediates[i].emit].data

\* The listeners in the order they are invoked for emit e, the queued
\* invocations after the ones made.
RECURSIVE CallbacksOf(_, _)
CallbacksOf(seq, e) ==
    IF seq = <<>> THEN <<>>
    ELSE (IF Head(seq).emit = e THEN <<Head(seq).cb>> ELSE <<>>) \o CallbacksOf(Tail(seq), e)

DispatchOf(e) == CallbacksOf(invoked, e) \o CallbacksOf(immediates, e)

EmitStep == Len(emitted') > Len(emitted)

\* C6 (listener promotion): a callback on() found one-shot is persistent
\* and not one-shot until it is removed, and every emit made since has
\* exactly one invocation of it, with the value of that emit.
Promotion ==
    /\ ValuesKept
    /\ \A m \in promoted :
        /\ Has(listeners, m.cb)
        /\ ~Has(onceListeners, m.cb)
        /\ \A e \in Emits : e > m.emits => Deliveries(m.cb, e) = 1

\* once(cb), on(cb), then two emits: cb has been invoked for both.
PromotionWitness ==
    \E m \in promoted :
        /\ m.emits = 0
        /\ Len(emitted) = 2
        /\ Count(invoked, m.cb, 1) = 1
        /\ Count(invoked, m.cb, 2) = 1

\* C7 (once on a persistent listener): once(cb) with cb persistent leaves
\* both listener sets as they are, a call of the function it returned
\* leaves them as they are too, and every emit has exactly one invocation
\* of each listener that was persistent when it was made.
OnceOnPersistent ==
    /\ [][\A cb \in Callbacks : Has(listeners, cb) /\ Once(cb) =>
                listeners' = listeners /\ onceListeners' = onceListeners]_vars
    /\ [][\A h \in handles : h.inert /\ Unsubscribe(h) =>
                listeners' = listeners /\ onceListeners' = onceListeners]_vars
    /\ [](\A e \in Emits : \A cb \in Elements(emitted[e].persistent) :
                Deliveries(cb, e) = 1)

\* The function returned by once(cb) for a persistent cb has been called,
\* cb is still persistent and has been invoked for an emit made later.
OnceOnPersistentWitness ==
    /\ inertCall # NoCall
    /\ Has(listeners, inertCall.cb)
    /\ \E i \in 1..Len(invoked) :
            invoked[i].cb = inertCall.cb /\ invoked[i].emit > inertCall.emits

\* C8 (one-shot listener): a callback that is one-shot and not persistent
\* when an emit is made has exactly one invocation for that emit, with its
\* value; a callback registered in neither set has none; and every emit
\* leaves the one-shot set empty.
OneShot ==
    /\ [](/\ ValuesKept
          /\ \A e \in Emits : \A cb \in Callbacks :
                IF Has(emitted[e].persistent, cb) THEN TRUE
                ELSE IF Has(emitted[e].once, cb) THEN Deliveries(cb, e) = 1
                ELSE Deliveries(cb, e) = 0)
    /\ [][EmitStep => onceListeners' = <<>>]_vars

\* A callback registered with once only was invoked for the first emit and
\* not for the second, which another listener received.
OneShotWitness ==
    \E cb \in Callbacks :
        /\ Len(emitted) = 2
        /\ immediates = <<>>
        /\ Has(emitted[1].once, cb) /\ ~Has(emitted[1].persistent, cb)
        /\ ~Has(emitted[2].once, cb) /\ ~Has(emitted[2].persistent, cb)
        /\ Count(invoked, cb, 1) = 1
        /\ Count(invoked, cb, 2) = 0
        /\ \E i \in 1..Len(invoked) : invoked[i].emit = 2

\* C9 (order within one emit): the invocations for an emit are those of
\* its persistent listeners in subscription order, then those of its
\* one-shot listeners in subscription order.
DispatchOrder ==
    \A e \in Emits : DispatchOf(e) = emitted[e].persistent \o emitted[e].once

\* One emit found a one-shot listener subscribed before a persistent one,
\* another found two persistent listeners subscribed against their
\* numbering; all their invocations have been made.
DispatchOrderWitness ==
    /\ immediates = <<>>
    /\ \E e \in Emits :
            /\ emitted[e].persistent = <<2>>
            /\ emitted[e].once = <<1>>
    /\ \E e \in Emits : emitted[e].persistent = <<2, 1>>

\* C10 (listener errors): an exception of a listener never leaves the
\* setImmediate callback, each is logged, an emit invokes no listener
\* before it returns, and once the queue is empty every listener an emit
\* found has been invoked with its value.
ErrorIsolation ==
    /\ [](/\ ~crashed
          /\ ValuesKept
          /\ logged = Cardinality({i \in 1..Len(invoked) : invoked[i].threw})
          /\ immediates = <<>> =>
                \A e \in Emits :
                    \A cb \in Elements(emitted[e].persistent) \cup Elements(emitted[e].once) :
                        Count(invoked, cb, e) >= 1)
    /\ [][EmitStep => invoked' = invoked /\ ~crashed']_vars

\* A listener threw for an emit and a listener invoked after it for the
\* same emit returned.
ErrorIsolationWitness ==
    \E i, j \in 1..Len(invoked) :
        /\ i < j
        /\ invoked[i].emit = invoked[j].emit
        /\ invoked[i].threw
        /\ ~invoked[j].threw
        /\ logged >= 1

Occurrences(seq, cb) == Cardinality({i \in 1..Len(seq) : seq[i] = cb})

\* C12 (snapshot dispatch): an emit has one invocation, made or queued,
\* for each listener registered when it is called and none for any other
\* callback, and no later step, a subscription or an unsubscription
\* included, changes the invocations of an emit already made or their order.
SnapshotDispatch ==
    /\ [][EmitStep =>
            \A cb \in Callbacks :
                Count(immediates', cb, Len(emitted')) =
                    Occurrences(listeners, cb) + Occurrences(onceListeners, cb)]_vars
    /\ [][\A e \in Emits : DispatchOf(e)' = DispatchOf(e)]_vars
    /\ [](\A e \in Emits : \A cb \in Callbacks :
            Deliveries(cb, e) =
                Occurrences(emitted[e].persistent, cb) + Occurrences(emitted[e].once, cb))

\* After an emit returned and before its invocation ran, the persistent
\* listener it found was unsubscribed and another callback subscribed: the
\* invocation of the first is still queued, the second has none.
SnapshotDispatchWitness ==
    \E cb, other \in Callbacks :
        /\ Len(emitted) = 1
        /\ emitted[1].persistent = <<cb>> /\ emitted[1].once = <<>>
        /\ Count(immediates, cb, 1) = 1
        /\ listeners = <<other>> /\ onceListeners = <<>>
        /\ other # cb
        /\ Deliveries(other, 1) = 0

(***************************************************************************)
(* Properties of listeners that act on the event.                          *)
(***************************************************************************)
\* C11 as stated (self-unsubscription): a persistent listener that
\* unsubscribed itself during an invocation is never invoked again, also
\* not for emits made before that invocation ran.
SelfUnsubscriptionNeverAgain ==
    \A m \in selfOff : TimesInvoked(invoked, m.cb) = m.count

\* C11 (self-unsubscription, amended): a persistent listener that
\* unsubscribed itself during an invocation is not registered, has no
\* invocation for an emit made after that, and has exactly one invocation
\* for each emit that found it registered, the emits made before that
\* invocation ran included.
SelfUnsubscription ==
    /\ ValuesKept
    /\ \A m \in selfOff :
        /\ ~Has(listeners, m.cb)
        /\ ~Has(onceListeners, m.cb)
        /\ \A e \in Emits :
            /\ e > m.emits => Deliveries(m.cb, e) = 0
            /\ Deliveries(m.cb, e) = IF Has(emitted[e].persistent, m.cb) THEN 1 ELSE 0

\* The listener unsubscribed itself while invoked for the first emit; a
\* second emit made afterwards reached another listener and not this one.
SelfUnsubscriptionWitness ==
    \E m \in selfOff :
        /\ m.emits = 1
        /\ Len(emitted) = 2
        /\ immediates = <<>>
        /\ Count(invoked, m.cb, 1) = 1
        /\ Count(invoked, m.cb, 2) = 0
        /\ \E i \in 1..Len(invoked) : invoked[i].emit = 2

\* C22 (disjoint listener sets): no callback is in the persistent set and
\* in the one-shot set at once, and neither set holds a callback twice.
DisjointSets ==
    /\ Elements(listeners) \cap Elements(onceListeners) = {}
    /\ Cardinality(Elements(listeners)) = Len(listeners)
    /\ Cardinality(Elements(onceListeners)) = Len(onceListeners)

\* One callback was one-shot, was made persistent by on() and then passed
\* to once(), whose inert function is held; the other callback is one-shot.
DisjointSetsWitness ==
    \E cb, other \in Callbacks :
        /\ listeners = <<cb>>
        /\ onceListeners = <<other>>
        /\ \E m \in promoted : m.cb = cb
        /\ \E h \in handles : h.inert /\ h.cb = cb

\* C20 (deferred dispatch): a step invokes at most one listener, and only
\* for an emit that had returned before the step; the step of an emit, one
\* made by a listener included, invokes no listener for that emit and
\* leaves one invocation queued for each listener it found.
DeferredDispatch ==
    [][/\ Len(invoked') <= Len(invoked) + 1
       /\ \A i \in (Len(invoked) + 1)..Len(invoked') : invoked'[i].emit \in Emits
       /\ EmitStep =>
            /\ CallbacksOf(invoked', Len(emitted')) = <<>>
            /\ CallbacksOf(immediates', Len(emitted')) = listeners \o onceListeners]_vars

\* A listener invoked for the first emit called emit itself, and has since
\* been invoked for that second emit.
DeferredDispatchWitness ==
    /\ 2 \in nestedEmits
    /\ \E i, j \in 1..Len(invoked) :
            /\ i < j
            /\ invoked[i].cb \in Emitters /\ invoked[i].emit = 1
            /\ invoked[j].cb \in Emitters /\ invoked[j].emit = 2

\* The invocations in the order they happen: those made, then those queued.
Schedule == invoked \o immediates

\* C23 (order across emissions): the invocations, made and queued, are in
\* the order of their emits, an emit made by a listener included: every
\* invocation for an emit comes before every invocation for a later one,
\* and a listener never receives an earlier value after a later one.
EmissionOrder ==
    /\ ValuesKept
    /\ \A i, j \in 1..Len(Schedule) : i < j => Schedule[i].emit <= Schedule[j].emit

\* The first of two listeners called emit while it was invoked for the
\* first emit; the second listener was invoked for the first emit after
\* that call, and then both for the nested emit.
EmissionOrderWitness ==
    /\ 2 \in nestedEmits
    /\ Len(invoked) = 4
    /\ invoked[1].cb \in Emitters /\ invoked[1].emit = 1
    /\ invoked[2].cb \in SelfUnsubscribers /\ invoked[2].emit = 1
    /\ invoked[3].cb \in Emitters /\ invoked[3].emit = 2
    /\ invoked[4].cb \in SelfUnsubscribers /\ invoked[4].emit = 2

(***************************************************************************)
(* Properties of waitFor and waitForCount.                                 *)
(***************************************************************************)
Min(set) == CHOOSE x \in set : \A y \in set : x <= y

\* The emits made after call w whose value its predicate accepts.
Matching(w) == {e \in Emits : e > waiters[w].since /\ emitted[e].data \in waiters[w].accepts}

\* C13 (waitFor): the promise of waitFor(predicate) is resolved exactly
\* when the listener has been invoked for the first emit made after the
\* call whose value the predicate accepts, and then with that value;
\* values before it that the predicate rejects and all values after it
\* leave the result alone, and with no accepted value it is pending.
WaitForFirstMatch ==
    \A w \in Waiters : waiters[w].kind = "predicate" =>
        IF Matching(w) = {} THEN waiters[w].state = "pending"
        ELSE LET first == Min(Matching(w)) IN
            IF Count(invoked, WaiterListener(w), first) = 0
            THEN waiters[w].state = "pending"
            ELSE /\ waiters[w].state = "resolved"
                 /\ waiters[w].value = emitted[first].data

\* Values 1 and 2 were emitted after two calls: the one that accepts only
\* 2 resolved with 2, the one that accepts both resolved with 1, and a
\* call made after the first emit whose predicate accepts nothing is
\* pending.
WaitForFirstMatchWitness ==
    /\ Len(emitted) = 2 /\ emitted[1].data = 1 /\ emitted[2].data = 2
    /\ immediates = <<>>
    /\ \E w \in Waiters :
            /\ waiters[w].kind = "predicate" /\ waiters[w].since = 0
            /\ waiters[w].accepts = {2}
            /\ waiters[w].state = "resolved" /\ waiters[w].value = 2
    /\ \E w \in Waiters :
            /\ waiters[w].kind = "predicate" /\ waiters[w].since = 0
            /\ waiters[w].accepts = {1, 2}
            /\ waiters[w].state = "resolved" /\ waiters[w].value = 1

\* C14 (waitForCount): the promise of waitForCount(n), n >= 1, is resolved
\* exactly when the listener has been invoked for the n-th emit made after
\* the call, and then with the value of that emit; with fewer than n emits
\* made after the call it is pending.
WaitForCountNth ==
    \A w \in Waiters : waiters[w].kind = "count" =>
        LET nth == waiters[w].since + waiters[w].expected IN
        /\ Len(emitted) < nth => waiters[w].state = "pending"
        /\ IF nth \in Emits /\ Count(invoked, WaiterListener(w), nth) = 1
           THEN waiters[w].state = "resolved" /\ waiters[w].value = emitted[nth].data
           ELSE waiters[w].state = "pending"

\* waitForCount(2) resolved with the value of the second emit, and a
\* waitForCount(1) made after the first emit with the same value.
WaitForCountNthWitness ==
    /\ Len(emitted) = 2 /\ emitted[1].data = 1 /\ emitted[2].data = 2
    /\ \E w \in Waiters :
            /\ waiters[w].kind = "count" /\ waiters[w].since = 0
            /\ waiters[w].expected = 2
            /\ waiters[w].state = "resolved" /\ waiters[w].value = 2
    /\ \E w \in Waiters :
            /\ waiters[w].kind = "count" /\ waiters[w].since = 1
            /\ waiters[w].expected = 1
            /\ waiters[w].state = "resolved" /\ waiters[w].value = 2

(***************************************************************************)
(* Properties of the asynchronous iterator.                                *)
(***************************************************************************)
RECURSIVE ValuesAfter(_)
\* The values of the emits made after the first n.
ValuesAfter(n) ==
    IF n >= Len(emitted) THEN <<>> ELSE <<emitted[n + 1].data>> \o ValuesAfter(n + 1)

IsPrefix(s, t) == Len(s) <= Len(t) /\ SubSeq(t, 1, Len(s)) = s

\* C15 as stated (asynchronous iteration): every consumer receives the
\* values emitted after it started iterating once each and in emission
\* order, none skipped: what it has received is a prefix of those values,
\* and all of them once no invocation is queued and its body is not busy.
IterationReceivesAll ==
    \A c \in Consumers : consumers[c].state # "idle" =>
        /\ IsPrefix(consumers[c].received, ValuesAfter(consumers[c].since))
        /\ (immediates = <<>> /\ consumers[c].state = "waiting") =>
                consumers[c].received = ValuesAfter(consumers[c].since)

(***************************************************************************)
(* Properties of the deadline race.                                        *)
(***************************************************************************)
\* C16 (deadline race outcome): the promise returned settles once; when
\* the action settled first it carries the action's value or error and
\* never a timeout error, when the timer fired first it carries the
\* timeout error whatever the action does later; and once no promise job
\* is queued, a call of which one side has settled has its outcome.
RaceOutcome ==
    /\ [](\A r \in Races :
            /\ races[r].result # "pending" =>
                    /\ races[r].first = "action" =>
                            races[r].result = races[r].action
                            /\ races[r].result \in ActionOutcomes
                    /\ races[r].first = "timer" => races[r].result = "timeout"
                    /\ races[r].first # "none"
            /\ (raceJobs = <<>> /\ races[r].first # "none") => races[r].result # "pending")
    /\ [][\A r \in Races : races[r].result # "pending" =>
                races'[r].result = races[r].result]_vars

\* One call whose action won has its value although its timer fired
\* afterwards, and one call whose timer won has the timeout error although
\* its action gave a value afterwards.
RaceOutcomeWitness ==
    /\ \E r \in Races :
            /\ races[r].first = "action" /\ races[r].timer = "fired"
            /\ races[r].result = "value"
    /\ \E r \in Races :
            /\ races[r].first = "timer" /\ races[r].action = "value"
            /\ races[r].result = "timeout"
    /\ raceJobs = <<>>

\* C17 as stated (no leaked timer): once the promise returned by a call
\* has settled, the timer of that call is not pending.
NoLeakedTimer ==
    \A r \in Races : races[r].result # "pending" => races[r].timer # "pending"

(***************************************************************************)
(* Properties of trigger.                                                  *)
(***************************************************************************)
\* The promise the caller of the provider awaits.
Awaited(t) ==
    IF triggers[t].impl = "async.js" THEN triggers[t].wrapper ELSE triggers[t].promise

\* C18 (trigger single-fire): when the resolver is called before any
\* timeout, the promise is resolved with the argument of the first call,
\* the promise the awaiter holds carries nothing else, and every call
\* after the first leaves both as they are.
TriggerSingleFire ==
    /\ [](\A t \in Triggers : triggers[t].first = "resolver" =>
            /\ triggers[t].promise = Fulfilled(triggers[t].args[1])
            /\ Awaited(t) \in {Pending, Fulfilled(triggers[t].args[1])}
            /\ (triggers[t].provided /\ triggerJobs = <<>>) =>
                    Awaited(t) = Fulfilled(triggers[t].args[1]))
    /\ [][\A t \in Triggers :
            (Len(triggers[t].args) >= 1 /\ triggers'[t].args # triggers[t].args) =>
                /\ triggers'[t].promise = triggers[t].promise
                /\ triggers'[t].wrapper = triggers[t].wrapper]_vars

\* Both implementations, without a timeout: the resolver was called with
\* 1 and then with 2, and the awaiter's promise is resolved with 1.
TriggerSingleFireWitness ==
    \A impl \in TriggerImpls : \E t \in Triggers :
        /\ triggers[t].impl = impl
        /\ triggers[t].timer = "none"
        /\ triggers[t].args = <<1, 2>>
        /\ triggers[t].provided
        /\ Awaited(t) = Fulfilled(1)

\* C19 (trigger with a timeout settles once): the promise of a trigger
\* with a timeout is pending until the resolver is called or the timer
\* fires; it is resolved with the resolver's first argument when the
\* resolver came first and rejected with the timeout error when the timer
\* came first; and a settled promise never changes, whatever fires or is
\* called afterwards.
TriggerSettlesOnce ==
    /\ [](\A t \in Triggers : triggers[t].timer # "none" =>
            /\ triggers[t].promise =
                    IF triggers[t].first = "resolver" THEN Fulfilled(triggers[t].args[1])
                    ELSE IF triggers[t].first = "timer"
                    THEN [state |-> "rejected", value |-> Undefined]
                    ELSE Pending
            /\ Awaited(t) \in {Pending, triggers[t].promise}
            /\ (triggers[t].provided /\ triggerJobs = <<>>) =>
                    Awaited(t) = triggers[t].promise)
    /\ [][\A t \in Triggers : triggers[t].timer # "none" =>
            /\ triggers[t].promise # Pending => triggers'[t].promise = triggers[t].promise
            /\ Awaited(t) # Pending => Awaited(t)' = Awaited(t)]_vars

\* A trigger of run-with-timeout.ts whose resolver was called first and
\* whose timer fired afterwards is resolved, and a trigger whose timer
\* fired first and whose resolver was called afterwards is rejected.
TriggerSettlesOnceWitness ==
    /\ \E t \in Triggers :
            /\ triggers[t].first = "resolver" /\ triggers[t].timer = "fired"
            /\ triggers[t].provided
            /\ Awaited(t) = Fulfilled(1)
    /\ \E t \in Triggers :
            /\ triggers[t].first = "timer" /\ triggers[t].args # <<>>
            /\ triggers[t].provided
            /\ Awaited(t).state = "rejected"

\* C21 as stated (trigger timer cancellation): once the resolver of a
\* trigger has been called before its timer fired, the timer is not
\* pending and has not fired.
TriggerTimerCancelled ==
    \A t \in Triggers : triggers[t].first = "resolver" =>
        triggers[t].timer \in {"none", "cleared"}

(***************************************************************************)
(* Liveness of the lock.                                                   *)
(***************************************************************************)
\* C24 (lock liveness): on a host that runs its promise jobs and fires its
\* timers, a function passed to executeSynchronized when neither it nor
\* any function enqueued before it awaits the same lock is eventually
\* started, and the promise returned for it eventually settles.
LockLiveness ==
    \A c \in Calls :
        (c \in Made /\ NoReentryUpTo(c)) ~> (started[c] /\ Settled(returned[c]))

\* Every call the bound allows was made without re-entry, a function that
\* throws and one that sleeps among them, before any job ran; all have
\* started and all their promises have settled.
LockLivenessWitness ==
    /\ ncalls = MaxCalls
    /\ firstRunAt = MaxCalls
    /\ NoReentryUpTo(MaxCalls)
    /\ \E c \in Made : Fails(fun[c]) /\ c < MaxCalls
    /\ \E c \in Made : Sleeps(fun[c])
    /\ \A c \in Made : started[c] /\ Settled(returned[c])

====
